---- MODULE Spec2Model ----
(***************************************************************************)
(* Job state and log reconciliation pipeline of streamplay:                *)
(*   - web/bench_runner.py   start_job (producer)                          *)
(*   - simulator/worker.py   main / process_job / log_line (worker)        *)
(*   - web/db_sync.py        reconciler and per-job log sync               *)
(*   - db/duckdb_client.py   upsert_job / insert_job_logs (durable store)  *)
(*   - duckdb_batch_writer.py batched_writer_task (size/time batching)     *)
(*   - web/log_listener.py   _listener_loop (realtime fan-out)             *)
(* Redis strings are sequences of one-character strings, so that the       *)
(* int()/str()/isdigit() conversions of the code are computed, not assumed.*)
(***************************************************************************)
EXTENDS Integers, Sequences, FiniteSets, TLC

\* ---------------------------------------------------------------- bounds
\* number of job ids
NumJobs == 2
\* stdout lines the subprocesses print, all jobs together
MaxLines == 3
\* store calls and subprocess starts that raise in one run
MaxFaults == 2
\* records put on the batched writer's queue
MaxSubmit == 4
\* messages published on the bench_logs channel
MaxPublish == 3
\* lines appended to a short log while it is synced
MaxAppends == 2

\* -------------------------------------------------- program constants
\* r.ltrim(key, -2000, -1): retained list length, scaled down
LOG_TRIM == 2
\* DB_LOG_BATCH_LIMIT default 1000, scaled down
LOG_BATCH_LIMIT == 2
\* r.ltrim(key, -2000, -1): retained list length as in the source, for logs
\* that stay far shorter
RETAINED == 2000
\* BATCH_SIZE = 500, scaled down
BATCH_SIZE == 3
\* FLUSH_INTERVAL = 2.0 seconds, in ticks of one second
FLUSH_INTERVAL == 2

Jobs == 1..NumJobs

\* worker processes that pop the same queue
NumWorkers == 2

Workers == 1..NumWorkers

\* ------------------------------------------------------ string helpers
Digits == <<"0", "1", "2", "3", "4", "5", "6", "7", "8", "9">>

DigitSet == {Digits[i] : i \in 1..10}

DigitVal(c) == (CHOOSE i \in 1..10 : Digits[i] = c) - 1

\* str(n) for n >= 0
RECURSIVE NatToStr(_)
NatToStr(n) ==
    IF n < 10 THEN <<Digits[n + 1]>>
    ELSE NatToStr(n \div 10) \o <<Digits[(n % 10) + 1]>>

\* str(n) for an int
PyStr(n) == IF n < 0 THEN <<"-">> \o NatToStr(0 - n) ELSE NatToStr(n)

\* str.isdigit(): non-empty and every character a digit
IsDigit(s) == Len(s) > 0 /\ \A i \in 1..Len(s) : s[i] \in DigitSet

RECURSIVE DigitsToNat(_)
DigitsToNat(s) ==
    IF s = <<>> THEN 0
    ELSE DigitsToNat(SubSeq(s, 1, Len(s) - 1)) * 10 + DigitVal(s[Len(s)])

\* int(s) is defined (does not raise ValueError)
PyIntOk(s) ==
    \/ IsDigit(s)
    \/ Len(s) > 1 /\ s[1] \in {"-", "+"} /\ IsDigit(Tail(s))

\* int(s), where PyIntOk(s)
PyInt(s) ==
    IF IsDigit(s) THEN DigitsToNat(s)
    ELSE IF s[1] = "-" THEN 0 - DigitsToNat(Tail(s))
    ELSE DigitsToNat(Tail(s))

\* Python None / SQL NULL for an optional int: <<>> is None, <<n>> is n
None == <<>>

Some(n) == <<n>>

\* time.time() truncated: the clock is abstracted to one positive instant
now_ts == 1

\* json.loads / json.dumps on the params strings that occur:
\* "{}" and "{ }" are the same object, "{bad" is not JSON
JsonOk(s) == s \in {"{}", "{ }"}

JsonDumpsLoads(s) == "{}"

\* ---------------------------------------------------------------- state
VARIABLES
    hkeys,       \* Redis: job ids whose hash bench_job:<id> exists
    hash,        \* Redis: bench_job:<id> hash fields
    queue,       \* Redis: list bench_jobs (job ids of the queued payloads)
    logList,     \* Redis: list bench_job_log:<id>; a line is its append ordinal
    appended,    \* number of lines ever rpush-ed per job (names the next line)
    markAtAppend, \* history: the job's watermark when LogLine last appended to its log
    syncKey,     \* Redis: string bench_job_log_sync:<id>, <<>> when not set
    jobsTable,   \* DuckDB: jobs rows
    jobLogs,     \* DuckDB: job_logs rows
    ppc,         \* producer: job whose hash is written and queue push is pending, 0 if none
    wpc,         \* worker: position in main / process_job / log_line
    wjob,        \* worker: job being processed
    wret,        \* worker: where log_line returns to
    wexit,       \* worker: exit code of the subprocess
    rpc,         \* reconciler: position in _sync_jobs_and_logs_once
    rkeys,       \* reconciler: keys of this cycle not yet visited
    rjob,        \* reconciler: job of the current iteration
    rmeta,       \* reconciler: meta read by hgetall
    last_idx,    \* _sync_logs_for_job: last_idx
    llen,        \* _sync_logs_for_job: llen
    new_entries, \* _sync_logs_for_job: new_entries
    lost,        \* history: <<job, seq>> handedTo to an insert_job_logs that raised
    lastUpsert,  \* history: status of the latest upsert_job that returned, per job
    upserts,     \* history: upsert_job calls that returned, per job (0, 1, many)
    rolledBack,  \* history: ids with a stored row for which an UpsertCall raised
    cycleKeys,   \* history: keys enumerated by the current cycle
    cycleFailed, \* history: jobs of the current cycle whose iteration raised
    cycleDone,   \* history: jobs of the current cycle upserted and log-synced
    cycleStable, \* history: the current cycle began when no hash could change any more
    sRunning,    \* db_sync._running
    lastCall,    \* history: the db_sync call that returned last: none, start, stop
    sActive,     \* number of live _scan_and_sync threads (_thread.is_alive() when > 0)
    faults,      \* history: number of calls that raised so far
    bwQueue,     \* asyncio.Queue: records put and not yet taken
    buffer,      \* batched_writer_task: buffer
    events,      \* DuckDB: rows of the events table, in insertion order
    bwAlive,     \* batched_writer_task is still running
    waited,      \* time the current wait_for(queue.get()) has waited
    sinceFlush,  \* time.time() - last_flush, saturating
    bufAge,      \* history: time the oldest buffered record has waited, saturating
    submitted,   \* number of records put so far (names the next record)
    taken,       \* history: the records taken from the queue, in order
    bwCalls,     \* history: the insert_batch calls made
    bwLast,      \* history: insert_batch of the latest loop pass: none, ok, raised
    lpc,         \* listener thread: off (not alive), subscribe, listen
    lrunning,    \* log_listener._running
    inbox,       \* messages the subscription ps holds and listen() has not yielded
    published,   \* number of messages published so far (names the next message)
    handled,     \* history: the messages the loop body ran for, and what it did
    lexit,       \* history: how the listener thread last ended
    pool,        \* per worker process of a pool: the job it is in process_job with, or 0
    handedTo       \* history: per job, the workers that called process_job with it

pipeVars == <<ppc, hkeys, hash, queue, logList, appended, markAtAppend, syncKey, jobsTable, jobLogs,
              wpc, wjob, wret, wexit, rpc, rkeys, rjob, rmeta, last_idx, llen,
              new_entries, lost, lastUpsert, upserts, rolledBack, cycleKeys, cycleFailed, cycleDone,
              cycleStable, sRunning, lastCall, sActive, pool, handedTo>>

redisVars == <<hkeys, hash, queue, logList, appended, markAtAppend, syncKey>>

dbVars == <<jobsTable, jobLogs, lost, lastUpsert, upserts, rolledBack>>

workerVars == <<wpc, wjob, wret, wexit>>

syncVars == <<rpc, rkeys, rjob, rmeta, last_idx, llen, new_entries,
              cycleKeys, cycleFailed, cycleDone, cycleStable, sRunning, lastCall,
              sActive, pool, handedTo>>

bwVars == <<bwQueue, buffer, events, bwAlive, waited, sinceFlush, bufAge, submitted,
            taken, bwCalls, bwLast>>

fanVars == <<lpc, lrunning, inbox, published, handled, lexit>>

vars == <<pipeVars, faults, bwVars, fanVars>>

\* the hash written by start_job
NoMeta ==
    [status |-> "", created_at |-> <<>>, started_at |-> <<>>, finished_at |-> <<>>,
     exit_code |-> <<>>, error |-> "", params |-> ""]

InitRedis ==
    /\ hkeys = {}
    /\ hash = [j \in Jobs |-> NoMeta]
    /\ queue = <<>>
    /\ logList = [j \in Jobs |-> <<>>]
    /\ appended = [j \in Jobs |-> 0]
    /\ syncKey = [j \in Jobs |-> <<>>]

InitDb ==
    /\ jobsTable = {}
    /\ jobLogs = {}
    /\ lost = {}
    /\ lastUpsert = [j \in Jobs |-> "none"]
    /\ upserts = [j \in Jobs |-> 0]

InitThreads ==
    /\ pool = [w \in Workers |-> 0]
    /\ handedTo = [j \in Jobs |-> <<>>]
    /\ rolledBack = {}
    /\ markAtAppend = [j \in Jobs |-> 0]
    /\ ppc = 0
    /\ wpc = "blpop"
    /\ wjob = 0
    /\ wret = ""
    /\ wexit = 0
    /\ rpc = "sleep"
    /\ rkeys = {}
    /\ rjob = 0
    /\ rmeta = NoMeta
    /\ last_idx = 0
    /\ llen = 0
    /\ new_entries = <<>>
    /\ cycleKeys = {}
    /\ cycleFailed = {}
    /\ cycleDone = {}
    /\ cycleStable = FALSE
    /\ faults = 0
    /\ bwQueue = <<>>
    /\ buffer = <<>>
    /\ events = <<>>
    /\ bwAlive = TRUE
    /\ waited = 0
    /\ sinceFlush = 0
    /\ bufAge = 0
    /\ submitted = 0
    /\ taken = <<>>
    /\ bwCalls = <<>>
    /\ bwLast = "none"
    /\ lpc = "off"
    /\ lrunning = FALSE
    /\ inbox = <<>>
    /\ published = 0
    /\ handled = <<>>
    /\ lexit = "none"

\* db_sync as imported: _thread = None, _running = False
DbSyncImported == sRunning = FALSE /\ sActive = 0 /\ lastCall = "none"

\* start_db_sync has returned: _running is set and the loop thread is alive
DbSyncStarted == sRunning = TRUE /\ sActive = 1 /\ lastCall = "start"

\* the processes with the reconciler started
InitProcs == InitThreads /\ DbSyncStarted

Init == InitRedis /\ InitDb /\ InitProcs

\* ------------------------------------------------------------- producer
\* start_job: hset(job_key, mapping=job_meta), then rpush to the queue
job_meta ==
    [status |-> "queued", created_at |-> PyStr(now_ts), started_at |-> <<>>,
     finished_at |-> <<>>, exit_code |-> <<>>, error |-> "", params |-> "{}"]

\* r.hset(job_key, mapping=job_meta); uuid4 is a fresh id. The run follows the
\* first job through producer, worker and reconciler; cycles over several jobs
\* are those of SpecCycle
StartJobHset ==
    /\ ppc = 0
    /\ hkeys = {}
    /\ \E j \in Jobs :
        /\ \A i \in Jobs : j <= i
        /\ hkeys' = hkeys \cup {j}
        /\ hash' = [hash EXCEPT ![j] = job_meta]
        /\ ppc' = j
    /\ UNCHANGED <<queue, logList, appended, markAtAppend, syncKey, dbVars, workerVars, syncVars,
                   bwVars, fanVars, faults>>

\* r.rpush(JOB_QUEUE_KEY, json.dumps(queue_item)); a raise ends the request
StartJobRpush ==
    /\ ppc # 0
    /\ ppc' = 0
    /\ \/ queue' = Append(queue, ppc) /\ faults' = faults
       \/ /\ UNCHANGED queue
          /\ faults < MaxFaults
          /\ faults' = faults + 1
    /\ UNCHANGED <<hkeys, hash, logList, appended, markAtAppend, syncKey, dbVars, workerVars,
                   syncVars,
                   bwVars, fanVars>>

\* --------------------------------------------------------------- worker
\* a store call or the subprocess raises: at most MaxFaults times in a run
Fault == faults < MaxFaults /\ faults' = faults + 1

NoFault == UNCHANGED faults

\* r.hset(key, field, value)
HSet(j, field, value) == hash' = [hash EXCEPT ![j][field] = value]

\* r.ltrim(key, -n, -1): keep the last n entries
KeepLast(list, n) ==
    IF Len(list) <= n THEN list
    ELSE SubSeq(list, Len(list) - n + 1, Len(list))

\* r.ltrim(key, -2000, -1): keep the last LOG_TRIM entries
LTrim(list) == KeepLast(list, LOG_TRIM)

\* lines printed so far by all subprocesses
RECURSIVE SumTo(_, _)
SumTo(f, n) == IF n = 0 THEN 0 ELSE f[n] + SumTo(f, n - 1)

wRest == <<hkeys, queue, logList, appended, markAtAppend, syncKey, ppc, dbVars, syncVars,
           bwVars, fanVars>>

wNoRedis ==
    <<hkeys, hash, queue, logList, appended, markAtAppend, syncKey, ppc, dbVars, syncVars,
      bwVars, fanVars>>

\* process_job returned to main, or raised into main's except: its locals are dead
ToMain == wpc' = "blpop" /\ wjob' = 0 /\ wret' = "" /\ wexit' = 0

\* log_line returns to its caller
LogLineReturn ==
    IF wret = "blpop" THEN ToMain
    ELSE wpc' = wret /\ wret' = "" /\ UNCHANGED <<wjob, wexit>>

\* main: item = r.blpop(JOB_QUEUE_KEY); job_item = json.loads(payload)
WorkerBlpop ==
    /\ wpc = "blpop"
    /\ queue # <<>>
    /\ wjob' = Head(queue)
    /\ queue' = Tail(queue)
    /\ wpc' = "running"
    /\ UNCHANGED <<hkeys, hash, logList, appended, markAtAppend, syncKey, ppc, dbVars,
                   syncVars, bwVars, fanVars,
                   wret, wexit, faults>>

\* process_job: set_job_field(job_id, "status", "running"); a raise reaches main
WorkerSetRunning ==
    /\ wpc = "running"
    /\ \/ /\ HSet(wjob, "status", "running")
          /\ wpc' = "started_at"
          /\ UNCHANGED <<wjob, wret, wexit>>
          /\ NoFault
       \/ UNCHANGED hash /\ ToMain /\ Fault
    /\ UNCHANGED wRest

\* set_job_field(job_id, "started_at", now_ts())
WorkerSetStarted ==
    /\ wpc = "started_at"
    /\ \/ /\ HSet(wjob, "started_at", PyStr(now_ts))
          /\ wpc' = "popen"
          /\ UNCHANGED <<wjob, wret, wexit>>
          /\ NoFault
       \/ UNCHANGED hash /\ ToMain /\ Fault
    /\ UNCHANGED wRest

\* proc = subprocess.Popen(...); a raise enters the except branch
WorkerPopen ==
    /\ wpc = "popen"
    /\ \/ wpc' = "readline" /\ NoFault
       \/ wpc' = "e_status" /\ Fault
    /\ UNCHANGED <<wNoRedis, wjob, wret, wexit>>

\* for line in iter(proc.stdout.readline, ""): log_line(job_id, line);
\* then proc.wait(); exit_code = proc.returncode
WorkerReadline ==
    /\ wpc = "readline"
    /\ \/ /\ SumTo(appended, NumJobs) < MaxLines
          /\ wpc' = "rpush"
          /\ wret' = "readline"
          /\ UNCHANGED wexit
       \/ /\ wpc' = "exit_code"
          /\ wexit' \in {0, 1}
          /\ UNCHANGED wret
    /\ UNCHANGED <<wNoRedis, wjob, faults>>

\* log_line: r.rpush(key, line); a raise is swallowed and ends log_line
WorkerRpush ==
    /\ wpc = "rpush"
    /\ \/ /\ logList' = [logList EXCEPT ![wjob] = Append(@, appended[wjob])]
          /\ appended' = [appended EXCEPT ![wjob] = @ + 1]
          /\ UNCHANGED markAtAppend
          /\ wpc' = "ltrim"
          /\ UNCHANGED <<wjob, wret, wexit>>
          /\ NoFault
       \/ /\ UNCHANGED <<logList, appended, markAtAppend>>
          /\ LogLineReturn
          /\ Fault
    /\ UNCHANGED <<hkeys, hash, queue, syncKey, ppc, dbVars, syncVars, bwVars, fanVars>>

\* log_line: r.ltrim(key, -2000, -1)
WorkerLtrim ==
    /\ wpc = "ltrim"
    /\ \/ /\ logList' = [logList EXCEPT ![wjob] = LTrim(@)]
          /\ wpc' = "publish"
          /\ UNCHANGED <<wjob, wret, wexit>>
          /\ NoFault
       \/ /\ UNCHANGED logList
          /\ LogLineReturn
          /\ Fault
    /\ UNCHANGED <<hkeys, hash, queue, appended, markAtAppend, syncKey, ppc, dbVars, syncVars,
                   bwVars, fanVars>>

\* r.publish(channel, message): a subscription that exists receives the message,
\* nothing keeps it otherwise
Publish(msg) == inbox' = IF lpc = "listen" THEN Append(inbox, msg) ELSE inbox

\* json.dumps({"job_id": job_id, "line": line}), as json.loads gives it back
LinePayload(job_id, line) == [form |-> "object", job_id |-> Some(job_id), line |-> Some(line)]

\* log_line: r.publish("bench_logs", payload) of the line just appended; a raise
\* is swallowed and nothing is published
WorkerPublish ==
    /\ wpc = "publish"
    /\ \/ Publish([type |-> "message", id |-> 0,
                   data |-> LinePayload(PyStr(wjob), PyStr(appended[wjob] - 1))])
       \/ UNCHANGED inbox
    /\ LogLineReturn
    /\ UNCHANGED <<hkeys, hash, queue, logList, appended, markAtAppend, syncKey, ppc, dbVars,
                   syncVars,
                   bwVars, lpc, lrunning, published, handled, lexit, faults>>

\* set_job_field(job_id, "exit_code", str(exit_code))
WorkerSetExitCode ==
    /\ wpc = "exit_code"
    /\ \/ HSet(wjob, "exit_code", PyStr(wexit)) /\ wpc' = "status" /\ NoFault
       \/ UNCHANGED hash /\ wpc' = "e_status" /\ Fault
    /\ UNCHANGED <<wRest, wjob, wret, wexit>>

\* if exit_code == 0: status completed, else status failed and a log line
WorkerSetStatus ==
    /\ wpc = "status"
    /\ \/ /\ wexit = 0
          /\ HSet(wjob, "status", "completed")
          /\ wpc' = "finished_at"
          /\ UNCHANGED wret
          /\ NoFault
       \/ /\ wexit # 0
          /\ HSet(wjob, "status", "failed")
          /\ wpc' = "rpush"
          /\ wret' = "finished_at"
          /\ NoFault
       \/ /\ UNCHANGED <<hash, wret>>
          /\ wpc' = "e_status"
          /\ Fault
    /\ UNCHANGED <<wRest, wjob, wexit>>

\* set_job_field(job_id, "finished_at", now_ts()); result_path is not modelled
WorkerSetFinished ==
    /\ wpc = "finished_at"
    /\ \/ HSet(wjob, "finished_at", PyStr(now_ts)) /\ ToMain /\ NoFault
       \/ /\ UNCHANGED hash
          /\ wpc' = "e_status"
          /\ UNCHANGED <<wjob, wret, wexit>>
          /\ Fault
    /\ UNCHANGED wRest

\* except Exception as e: set_job_field(job_id, "status", "failed")
WorkerExceptStatus ==
    /\ wpc = "e_status"
    /\ \/ /\ HSet(wjob, "status", "failed")
          /\ wpc' = "e_error"
          /\ UNCHANGED <<wjob, wret, wexit>>
          /\ NoFault
       \/ UNCHANGED hash /\ ToMain /\ Fault
    /\ UNCHANGED wRest

\* set_job_field(job_id, "error", str(e))
WorkerExceptError ==
    /\ wpc = "e_error"
    /\ \/ /\ HSet(wjob, "error", "err")
          /\ wpc' = "e_finished"
          /\ UNCHANGED <<wjob, wret, wexit>>
          /\ NoFault
       \/ UNCHANGED hash /\ ToMain /\ Fault
    /\ UNCHANGED wRest

\* set_job_field(job_id, "finished_at", now_ts()); log_line(job_id, "Worker error")
WorkerExceptFinished ==
    /\ wpc = "e_finished"
    /\ \/ /\ HSet(wjob, "finished_at", PyStr(now_ts))
          /\ wpc' = "rpush"
          /\ wret' = "blpop"
          /\ UNCHANGED <<wjob, wexit>>
          /\ NoFault
       \/ UNCHANGED hash /\ ToMain /\ Fault
    /\ UNCHANGED wRest

Worker ==
    \/ WorkerBlpop \/ WorkerSetRunning \/ WorkerSetStarted \/ WorkerPopen
    \/ WorkerReadline \/ WorkerRpush \/ WorkerLtrim \/ WorkerPublish
    \/ WorkerSetExitCode \/ WorkerSetStatus \/ WorkerSetFinished
    \/ WorkerExceptStatus \/ WorkerExceptError \/ WorkerExceptFinished

\* ------------------------------------------------------- durable store
\* int(job.get(f) or 0)
OrZero(v) == IF v = None THEN 0 ELSE v[1]

\* the VALUES tuple of upsert_job's INSERT
UpsertRow(job) ==
    [id |-> job.id, status |-> job.status, created_at |-> OrZero(job.created_at),
     started_at |-> OrZero(job.started_at), finished_at |-> OrZero(job.finished_at),
     exit_code |-> job.exit_code, error |-> job.error, params |-> job.params,
     last_updated |-> now_ts]

\* jobs.id is the PRIMARY KEY
JobsPkOk(T, row) == \A r \in T : r.id # row.id

\* an upsert that keeps an existing row (INSERT ... ON CONFLICT DO NOTHING)
upsert_job_keep(T, job) ==
    IF JobsPkOk(T, UpsertRow(job))
    THEN [table |-> T \cup {UpsertRow(job)}, raised |-> FALSE]
    ELSE [table |-> T, raised |-> FALSE]

\* a failure that leaves what the transaction had done so far
Rollback_partial(before, working) == working

\* except Exception: conn.execute("ROLLBACK"); raise
Rollback(before, working) == before

\* the statements of the transaction that the store may fail
FailingSteps == {"delete", "insert"}

\* upsert_job when statement `at` fails: the DELETE had not run, or had removed
\* the id's row, and the transaction is rolled back
upsert_job_failed(T, job, at) ==
    Rollback(T, IF at = "delete" THEN T ELSE {r \in T : r.id # job.id})

\* upsert_job: DELETE the id's row, INSERT the new one, COMMIT; on an error
\* ROLLBACK and raise
upsert_job(T, job) ==
    LET deleted == {r \in T : r.id # job.id}
    IN  IF JobsPkOk(deleted, UpsertRow(job))
        THEN [table |-> deleted \cup {UpsertRow(job)}, raised |-> FALSE]
        ELSE [table |-> T, raised |-> TRUE]

\* rows of _sync_logs_for_job: (seq, ts, line) with seq = last_idx + i
Rows(first, entries) ==
    [i \in 1..Len(entries) |-> [seq |-> first + i - 1, ts |-> now_ts, line |-> entries[i]]]

LogRow(job_id, r) == [job_id |-> job_id, seq |-> r.seq, ts |-> r.ts, line |-> r.line]

\* job_logs has PRIMARY KEY (job_id, seq)
LogsPkOk(T, new) ==
    /\ \A r \in T : \A n \in new : ~(r.job_id = n.job_id /\ r.seq = n.seq)
    /\ \A m, n \in new : (m.job_id = n.job_id /\ m.seq = n.seq) => m = n

\* an insert that overwrites the rows already present (INSERT OR REPLACE)
insert_job_logs_replace(T, job_id, rows) ==
    LET new == {LogRow(job_id, rows[i]) : i \in 1..Len(rows)}
        kept == {r \in T : \A n \in new : ~(r.job_id = n.job_id /\ r.seq = n.seq)}
    IN  [table |-> kept \cup new, inserted |-> Len(rows), raised |-> FALSE]

\* insert_job_logs: SELECT the seqs present in [min_seq, max_seq], insert the
\* rows whose seq is not among them in one transaction
insert_job_logs(T, job_id, rows) ==
    IF rows = <<>> THEN [table |-> T, inserted |-> 0, raised |-> FALSE]
    ELSE
    LET seqs == {rows[i].seq : i \in 1..Len(rows)}
        min_seq == CHOOSE m \in seqs : \A x \in seqs : m <= x
        max_seq == CHOOSE m \in seqs : \A x \in seqs : m >= x
        existing_seqs ==
            {r.seq : r \in {x \in T : x.job_id = job_id /\ x.seq >= min_seq
                                                   /\ x.seq <= max_seq}}
        to_insert == {LogRow(job_id, rows[i]) :
                         i \in {k \in 1..Len(rows) : rows[k].seq \notin existing_seqs}}
    IN  IF to_insert = {} THEN [table |-> T, inserted |-> 0, raised |-> FALSE]
        ELSE IF LogsPkOk(T, to_insert)
        THEN [table |-> T \cup to_insert, inserted |-> Cardinality(to_insert),
              raised |-> FALSE]
        ELSE [table |-> T, inserted |-> 0, raised |-> TRUE]

\* ----------------------------------------------------------- reconciler
\* int(meta.get(f)) if meta.get(f) else None: raises on a non-empty non-integer
IntFieldOk(s) == s = <<>> \/ PyIntOk(s)

\* a parse that yields None for every value
IntField_absent(s) == None

IntField(s) == IF s = <<>> THEN None ELSE Some(PyInt(s))

\* params: json.loads, the raw string when that raises; upsert_job dumps it again
Params(s) ==
    IF s = "" THEN None
    ELSE IF JsonOk(s) THEN Some(JsonDumpsLoads(s))
    ELSE Some(s)

\* building job_record raises
RecordRaises(meta) ==
    \/ ~IntFieldOk(meta.created_at)
    \/ ~IntFieldOk(meta.started_at)
    \/ ~IntFieldOk(meta.finished_at)
    \/ ~IntFieldOk(meta.exit_code)

job_record(job_id, meta) ==
    [id |-> job_id, status |-> meta.status, created_at |-> IntField(meta.created_at),
     started_at |-> IntField(meta.started_at),
     finished_at |-> IntField(meta.finished_at),
     exit_code |-> IntField(meta.exit_code), error |-> meta.error,
     params |-> Params(meta.params)]

\* r.lrange(key, start, end): both ends inclusive, clipped to the list
\* a range that leaves out the entry at its end index
LRange_exclusive(list, start, end) ==
    SubSeq(list, start + 1, IF end < Len(list) THEN end ELSE Len(list))

\* lrange(key, start, end): the entries at indices start .. end, as far as the
\* list goes
LRange(list, start, end) ==
    SubSeq(list, start + 1, IF end + 1 < Len(list) THEN end + 1 ELSE Len(list))

\* an invocation that starts from 0 whatever is persisted
LastIdx_restart(v) == 0

\* last_idx = int(v) if v and v.isdigit() else 0
LastIdx(v) == IF v # <<>> /\ IsDigit(v) THEN PyInt(v) ELSE 0

\* a range that ends with the list, whatever the batch limit
EndIdx_nocap(len, first) == len - 1

\* end_idx = min(llen - 1, last_idx + LOG_BATCH_LIMIT - 1)
EndIdx(len, first) ==
    IF len - 1 < first + LOG_BATCH_LIMIT - 1 THEN len - 1
    ELSE first + LOG_BATCH_LIMIT - 1

\* a pointer that forgets where the read started
NextIdx_len(first, entries) == Len(entries)

\* a pointer that steps one past the entries read
NextIdx_skip(first, entries) == first + Len(entries) + 1

\* next_idx = last_idx + len(new_entries)
NextIdx(first, entries) == first + Len(entries)

\* a per-job failure that leaves the for loop
AfterJobFailure_abort(keys) == {}

\* the for loop after an iteration raised: except Exception: continue
AfterJobFailure(keys) == keys

rRest == <<ppc, hkeys, hash, queue, logList, appended, markAtAppend, workerVars, bwVars,
           fanVars, sRunning, lastCall, pool, handedTo>>

\* the locals of an iteration are dead once it ends
EndIteration ==
    /\ rpc' = "loop"
    /\ rjob' = 0
    /\ rmeta' = NoMeta
    /\ last_idx' = 0
    /\ llen' = 0
    /\ new_entries' = <<>>

\* the iteration of job k raised: the per-job except continues the loop
JobFailed(k) ==
    /\ EndIteration
    /\ rkeys' = AfterJobFailure(rkeys \ {k})
    /\ cycleFailed' = cycleFailed \cup {k}
    /\ UNCHANGED <<cycleKeys, cycleDone, cycleStable, sActive>>

\* _sync_logs_for_job returned
JobDone ==
    /\ EndIteration
    /\ cycleDone' = cycleDone \cup {rjob}
    /\ UNCHANGED <<rkeys, cycleKeys, cycleFailed, cycleStable, sActive>>

\* a step inside _sync_logs_for_job that stays in it
SyncStep(pc) ==
    /\ rpc' = pc
    /\ UNCHANGED <<rkeys, rjob, rmeta, cycleKeys, cycleFailed, cycleDone, cycleStable,
                   sActive>>

\* no start_job call is under way, no payload is queued and the worker waits in
\* blpop: nothing writes to an existing job hash any more
HashesStable == ppc = 0 /\ queue = <<>> /\ wpc = "blpop"

\* a loop that goes on whatever _running says
LoopContinues_forever(running) == TRUE

\* while _running
LoopContinues(running) == running

\* an exception of the cycle that leaves _scan_and_sync
AfterCycleFailure_exit(threads) == threads - 1

\* _sync_jobs_and_logs_once: except Exception: pass; the thread goes on to sleep
AfterCycleFailure(threads) == threads

\* _scan_and_sync: while _running: _sync_jobs_and_logs_once() begins with
\* keys = _r.keys(JOB_HASH_PREFIX + "*"), a raise ends the cycle
SyncKeys ==
    /\ rpc = "sleep"
    /\ sActive > 0
    /\ LoopContinues(sRunning)
    /\ \/ /\ rkeys' = hkeys
          /\ cycleKeys' = hkeys
          /\ cycleStable' = HashesStable
          /\ rpc' = "loop"
          /\ UNCHANGED sActive
          /\ NoFault
       \/ /\ rkeys' = {}
          /\ cycleKeys' = {}
          /\ cycleStable' = FALSE
          /\ rpc' = "sleep"
          /\ sActive' = AfterCycleFailure(sActive)
          /\ Fault
    /\ cycleFailed' = {}
    /\ cycleDone' = {}
    /\ UNCHANGED <<rRest, syncKey, dbVars, rjob, rmeta, last_idx, llen, new_entries>>

\* for k in keys: meta = _r.hgetall(k); if not meta: continue
SyncHgetall ==
    /\ rpc = "loop"
    /\ \E k \in rkeys :
        \/ /\ rkeys' = rkeys \ {k}
           /\ rjob' = k
           /\ rmeta' = hash[k]
           /\ rpc' = IF k \in hkeys THEN "upsert" ELSE "loop"
           /\ UNCHANGED <<cycleKeys, cycleFailed, cycleDone, cycleStable, sActive,
                          last_idx, llen, new_entries>>
           /\ NoFault
        \/ JobFailed(k) /\ Fault
    /\ UNCHANGED <<rRest, syncKey, dbVars>>

\* the for loop is exhausted: the cycle ends, time.sleep(SYNC_INTERVAL)
SyncCycleEnd ==
    /\ rpc = "loop"
    /\ rkeys = {}
    /\ rpc' = "sleep"
    /\ UNCHANGED <<rRest, syncKey, dbVars, rkeys, rjob, rmeta, last_idx, llen,
                   new_entries, cycleKeys, cycleFailed, cycleDone, cycleStable, sActive,
                   faults>>

\* upsert_job(job) returned: the table it left, and the history of the call
Upserted(job) ==
    /\ jobsTable' = upsert_job(jobsTable, job).table
    /\ lastUpsert' = [lastUpsert EXCEPT ![job.id] = job.status]
    /\ upserts' = [upserts EXCEPT ![job.id] = IF @ = 0 THEN 1 ELSE 2]
    /\ UNCHANGED rolledBack

\* a cycle that syncs the log whatever upsert_job did
LogSyncFollows_always(raised) == TRUE

\* upsert_job and _sync_logs_for_job stand in one try: a raise of the first
\* skips the second
LogSyncFollows(raised) == ~raised

\* upsert_job raised
UpsertRaised ==
    IF LogSyncFollows(TRUE)
    THEN SyncStep("get") /\ UNCHANGED <<last_idx, llen, new_entries>>
    ELSE JobFailed(rjob)

\* job_record = {...}; upsert_job(job_record); a raise of either, or of the
\* store, is the iteration's failure
SyncUpsert ==
    /\ rpc = "upsert"
    /\ \/ /\ NoFault
          /\ IF RecordRaises(rmeta) THEN
                JobFailed(rjob) /\ UNCHANGED <<jobsTable, lastUpsert, upserts, rolledBack>>
             ELSE IF upsert_job(jobsTable, job_record(rjob, rmeta)).raised THEN
                UpsertRaised /\ UNCHANGED <<jobsTable, lastUpsert, upserts, rolledBack>>
             ELSE
                /\ Upserted(job_record(rjob, rmeta))
                /\ SyncStep("get")
                /\ UNCHANGED <<last_idx, llen, new_entries>>
       \/ /\ Fault
          /\ UpsertRaised
          /\ \E at \in FailingSteps :
                jobsTable' = upsert_job_failed(jobsTable, job_record(rjob, rmeta), at)
          /\ UNCHANGED <<lastUpsert, upserts, rolledBack>>
    /\ UNCHANGED <<rRest, syncKey, jobLogs, lost>>

\* _sync_logs_for_job: last_idx_val = _r.get(sync_key); a raise leaves the function
SyncGet ==
    /\ rpc = "get"
    /\ \/ /\ last_idx' = LastIdx(syncKey[rjob])
          /\ SyncStep("llen")
          /\ UNCHANGED <<llen, new_entries>>
          /\ NoFault
       \/ JobFailed(rjob) /\ Fault
    /\ UNCHANGED <<rRest, syncKey, dbVars>>

\* after llen = n: if llen <= last_idx: return
AfterLlen(n) ==
    IF n <= last_idx
    THEN JobDone
    ELSE llen' = n /\ SyncStep("lrange") /\ UNCHANGED <<last_idx, new_entries>>

\* llen = _r.llen(log_key), 0 on a raise
SyncLlen ==
    /\ rpc = "llen"
    /\ \/ AfterLlen(Len(logList[rjob])) /\ NoFault
       \/ AfterLlen(0) /\ Fault
    /\ UNCHANGED <<rRest, syncKey, dbVars>>

\* after new_entries = got: if not new_entries: return
AfterLrange(got) ==
    IF got = <<>>
    THEN JobDone
    ELSE new_entries' = got /\ SyncStep("insert") /\ UNCHANGED <<last_idx, llen>>

\* new_entries = _r.lrange(log_key, last_idx, end_idx), [] on a raise
SyncLrange ==
    /\ rpc = "lrange"
    /\ \/ AfterLrange(LRange(logList[rjob], last_idx, EndIdx(llen, last_idx))) /\ NoFault
       \/ AfterLrange(<<>>) /\ Fault
    /\ UNCHANGED <<rRest, syncKey, dbVars>>

\* an invocation that returns when the insert raised
GoesOnAfterInsert_ok(raised) == ~raised

\* except Exception: inserted = 0, and the invocation goes on to the watermark
GoesOnAfterInsert(raised) == TRUE

\* the insert attempt is over
AfterInsert(raised) ==
    IF GoesOnAfterInsert(raised)
    THEN SyncStep("set") /\ UNCHANGED <<last_idx, llen, new_entries>>
    ELSE JobDone

\* inserted = insert_job_logs(job_id, rows), 0 on a raise
SyncInsert ==
    /\ rpc = "insert"
    /\ LET res == insert_job_logs(jobLogs, rjob, Rows(last_idx, new_entries))
           handed == {<<rjob, last_idx + i - 1>> : i \in 1..Len(new_entries)}
       IN  \/ /\ NoFault
              /\ jobLogs' = res.table
              /\ lost' = IF res.raised THEN lost \cup handed ELSE lost
              /\ AfterInsert(res.raised)
           \/ /\ Fault
              /\ UNCHANGED jobLogs
              /\ lost' = lost \cup handed
              /\ AfterInsert(TRUE)
    /\ UNCHANGED <<rRest, syncKey, jobsTable, lastUpsert, upserts, rolledBack>>

\* _r.set(sync_key, str(next_idx)), a raise is passed over
SyncSet ==
    /\ rpc = "set"
    /\ \/ /\ syncKey' = [syncKey EXCEPT ![rjob] = PyStr(NextIdx(last_idx, new_entries))]
          /\ NoFault
       \/ UNCHANGED syncKey /\ Fault
    /\ JobDone
    /\ UNCHANGED <<rRest, dbVars>>

\* while _running is false: _scan_and_sync returns and the thread ends
SyncExit ==
    /\ rpc = "sleep"
    /\ sActive > 0
    /\ ~LoopContinues(sRunning)
    /\ sActive' = sActive - 1
    /\ UNCHANGED <<rRest, syncKey, dbVars, rpc, rkeys, rjob, rmeta, last_idx, llen,
                   new_entries, cycleKeys, cycleFailed, cycleDone, cycleStable, faults>>

\* a start that does not look at the previous thread
StartsThread_always(alive) == TRUE

\* if _thread and _thread.is_alive(): return
StartsThread(alive) == ~alive

\* start_db_sync: unless the thread is alive, _running = True and a new thread
\* is started
StartDbSync ==
    /\ IF StartsThread(sActive > 0)
       THEN sRunning' = TRUE /\ sActive' = sActive + 1
       ELSE UNCHANGED <<sRunning, sActive>>
    /\ lastCall' = "start"
    /\ UNCHANGED <<ppc, hkeys, hash, queue, logList, appended, markAtAppend, workerVars,
                   bwVars, fanVars, pool, handedTo,
                   syncKey, dbVars, rpc, rkeys, rjob, rmeta, last_idx, llen, new_entries,
                   cycleKeys, cycleFailed, cycleDone, cycleStable, faults>>

\* stop_db_sync: _running = False
StopDbSync ==
    /\ sRunning' = FALSE
    /\ lastCall' = "stop"
    /\ UNCHANGED <<ppc, hkeys, hash, queue, logList, appended, markAtAppend, workerVars,
                   bwVars, fanVars, pool, handedTo,
                   syncKey, dbVars, rpc, rkeys, rjob, rmeta, last_idx, llen, new_entries,
                   cycleKeys, cycleFailed, cycleDone, cycleStable, sActive, faults>>

Reconciler ==
    \/ SyncKeys \/ SyncHgetall \/ SyncCycleEnd \/ SyncUpsert
    \/ SyncGet \/ SyncLlen \/ SyncLrange \/ SyncInsert \/ SyncSet

Next == StartJobHset \/ StartJobRpush \/ Worker \/ Reconciler

Spec == Init /\ [][Next]_vars

\* ------------------------------------- reconciliation cycles over given hashes
\* a well-formed hash of a running job
GoodMeta ==
    [status |-> "running", created_at |-> PyStr(now_ts), started_at |-> PyStr(now_ts),
     finished_at |-> <<>>, exit_code |-> <<>>, error |-> "", params |-> "{}"]

\* a field value int() rejects
Unparseable == <<"a", "b">>

\* hashes as any Redis client may have left them: one field of GoodMeta changed
MetaInputs ==
    {GoodMeta,
     [GoodMeta EXCEPT !.created_at = Unparseable],
     [GoodMeta EXCEPT !.exit_code = Unparseable],
     [GoodMeta EXCEPT !.exit_code = <<"-", "9">>, !.status = "failed"],
     [GoodMeta EXCEPT !.params = "{bad"]}

\* log lists after n appends and the trims that followed them
LogAfter(n) ==
    IF n <= LOG_TRIM THEN [i \in 1..n |-> i - 1]
    ELSE [i \in 1..LOG_TRIM |-> n - LOG_TRIM + i - 1]

InitCycle ==
    /\ hkeys = Jobs
    /\ hash \in [Jobs -> MetaInputs]
    /\ queue = <<>>
    /\ appended \in [Jobs -> {0, MaxLines}]
    /\ logList = [j \in Jobs |-> LogAfter(appended[j])]
    /\ syncKey = [j \in Jobs |-> <<>>]
    /\ InitDb
    /\ InitProcs

SpecCycle == InitCycle /\ [][Reconciler]_vars

\* ------------------------------------- cycles over a log trimmed past the watermark
\* lines synced while the list was still whole: the persisted watermark
SyncedBefore == LOG_TRIM - 1

\* lines appended in all: ltrim has evicted lines the reconciler never read
Produced == SyncedBefore + LOG_TRIM + 1

\* the first line the list still holds
OldestAvailable == Produced - LOG_TRIM

\* every job has printed Produced lines, of which the first SyncedBefore were
\* synced before the others were appended
InitTrimmed ==
    /\ hkeys = Jobs
    /\ hash = [j \in Jobs |-> GoodMeta]
    /\ queue = <<>>
    /\ appended = [j \in Jobs |-> Produced]
    /\ logList = [j \in Jobs |-> LogAfter(Produced)]
    /\ syncKey = [j \in Jobs |-> PyStr(SyncedBefore)]
    /\ jobsTable = {UpsertRow(job_record(j, GoodMeta)) : j \in Jobs}
    /\ jobLogs = {LogRow(j, Rows(0, LogAfter(SyncedBefore))[i]) :
                     j \in Jobs, i \in 1..SyncedBefore}
    /\ lost = {}
    /\ lastUpsert = [j \in Jobs |-> GoodMeta.status]
    /\ upserts = [j \in Jobs |-> 1]
    /\ InitProcs

SpecTrimmed == InitTrimmed /\ [][Reconciler]_vars

\* ------------------------------------------ cycles over a short log that grows
\* lines of the log at the start: one full batch and a partial one
ScenarioLines == 2 * LOG_BATCH_LIMIT - 1

\* the job of the scenario
FirstJob == CHOOSE j \in Jobs : \A i \in Jobs : j <= i

\* one running job has printed ScenarioLines lines and nothing was synced yet
ShortLog ==
    /\ hkeys = {FirstJob}
    /\ hash = [j \in Jobs |-> IF j = FirstJob THEN GoodMeta ELSE NoMeta]
    /\ queue = <<>>
    /\ appended = [j \in Jobs |-> IF j = FirstJob THEN ScenarioLines ELSE 0]
    /\ logList = [j \in Jobs |-> [i \in 1..appended[j] |-> i - 1]]
    /\ syncKey = [j \in Jobs |-> <<>>]
    /\ InitDb

InitShortLog == ShortLog /\ InitProcs

\* log_line of a running job: r.rpush(key, line); r.ltrim(key, -2000, -1), which
\* removes nothing from a list this short; the publish reaches no subscriber
AppendLine ==
    /\ \E j \in hkeys :
        /\ appended[j] < ScenarioLines + MaxAppends
        /\ logList' = [logList EXCEPT ![j] = KeepLast(Append(@, appended[j]), RETAINED)]
        /\ appended' = [appended EXCEPT ![j] = @ + 1]
    /\ UNCHANGED <<hkeys, hash, queue, markAtAppend, syncKey, ppc, dbVars, workerVars,
                   syncVars, bwVars,
                   fanVars, faults>>

SpecShortLog == InitShortLog /\ [][Reconciler \/ AppendLine]_vars

\* ------------------------------------- cycles over a log longer than is retained
\* one running job that has printed nothing yet
InitLongLog ==
    /\ hkeys = {FirstJob}
    /\ hash = [j \in Jobs |-> IF j = FirstJob THEN GoodMeta ELSE NoMeta]
    /\ queue = <<>>
    /\ appended = [j \in Jobs |-> 0]
    /\ logList = [j \in Jobs |-> <<>>]
    /\ syncKey = [j \in Jobs |-> <<>>]
    /\ InitDb
    /\ InitProcs

\* log_line of a running job: r.rpush(key, line); r.ltrim(key, -LOG_TRIM, -1);
\* the publish reaches no subscriber
LogLine ==
    /\ \E j \in hkeys :
        /\ appended[j] < LOG_TRIM + MaxAppends
        /\ logList' = [logList EXCEPT ![j] = LTrim(Append(@, appended[j]))]
        /\ appended' = [appended EXCEPT ![j] = @ + 1]
        /\ markAtAppend' = [markAtAppend EXCEPT ![j] = LastIdx(syncKey[j])]
    /\ UNCHANGED <<hkeys, hash, queue, syncKey, ppc, dbVars, workerVars, syncVars, bwVars,
                   fanVars, faults>>

\* the reconciler loop is scheduled while the job prints
SpecLongLog == InitLongLog /\ [][Reconciler \/ LogLine]_vars /\ WF_vars(Reconciler)

\* ------------------------------------ the reconciler thread started and stopped
\* the steps of a _scan_and_sync thread
SyncThread == Reconciler \/ SyncExit

\* the reconciler not started yet, over a job with a short log
InitSync == ShortLog /\ InitThreads /\ DbSyncImported

\* one caller starts and stops the reconciler; a live thread is scheduled
SpecSync ==
    InitSync /\ [][SyncThread \/ StartDbSync \/ StopDbSync]_vars /\ WF_vars(SyncThread)

\* --------------------------------------------- the worker over queued jobs
\* start_job has returned for every job: hash written, payload queued
InitQueued ==
    /\ hkeys = Jobs
    /\ hash = [j \in Jobs |-> job_meta]
    /\ queue = [i \in 1..NumJobs |-> i]
    /\ logList = [j \in Jobs |-> <<>>]
    /\ appended = [j \in Jobs |-> 0]
    /\ syncKey = [j \in Jobs |-> <<>>]
    /\ InitDb
    /\ InitProcs

\* main's while True loop keeps running: a worker step that can be taken is taken
SpecWorker == InitQueued /\ [][Worker]_vars /\ WF_vars(Worker)

\* ------------------------------------------- several workers on one job queue
\* start_job: job_id = str(uuid.uuid4()), a fresh id; r.hset(job_key,
\* mapping=job_meta); a raise ends the request before the rpush
StartJobHsetNext ==
    /\ ppc = 0
    /\ \E j \in Jobs \ hkeys :
        /\ \A i \in Jobs \ hkeys : j <= i
        /\ \/ /\ hkeys' = hkeys \cup {j}
              /\ hash' = [hash EXCEPT ![j] = job_meta]
              /\ ppc' = j
              /\ NoFault
           \/ /\ UNCHANGED <<hkeys, hash, ppc>>
              /\ Fault
    /\ UNCHANGED <<queue, logList, appended, markAtAppend, syncKey, dbVars, workerVars,
                   syncVars, bwVars, fanVars>>

\* a pop that leaves the item on the list (a peek)
Popped_peek(q) == q

\* the list after blpop has returned its first item
Popped(q) == Tail(q)

\* main of worker w: item = r.blpop(JOB_QUEUE_KEY, timeout=0); json.loads;
\* process_job(job_item) is entered
PoolBlpop(w) ==
    /\ pool[w] = 0
    /\ queue # <<>>
    /\ queue' = Popped(queue)
    /\ pool' = [pool EXCEPT ![w] = Head(queue)]
    /\ handedTo' = [handedTo EXCEPT ![Head(queue)] = Append(@, w)]
    /\ UNCHANGED <<ppc, hkeys, hash, logList, appended, markAtAppend, syncKey, dbVars,
                   workerVars, rpc, rkeys, rjob, rmeta, last_idx, llen, new_entries,
                   cycleKeys, cycleFailed, cycleDone, cycleStable, sRunning, lastCall,
                   sActive, bwVars, fanVars, faults>>

\* process_job of worker w runs to its end: the status written last is completed
\* or failed; main goes back to blpop
PoolProcessJob(w) ==
    /\ pool[w] # 0
    /\ \E st \in {"completed", "failed"} :
          hash' = [hash EXCEPT ![pool[w]].status = st,
                               ![pool[w]].finished_at = PyStr(now_ts)]
    /\ pool' = [pool EXCEPT ![w] = 0]
    /\ UNCHANGED <<ppc, hkeys, queue, logList, appended, markAtAppend, syncKey, dbVars,
                   workerVars, rpc, rkeys, rjob, rmeta, last_idx, llen, new_entries,
                   cycleKeys, cycleFailed, cycleDone, cycleStable, sRunning, lastCall,
                   sActive, handedTo, bwVars, fanVars, faults>>

\* the worker processes
Pool == \E w \in Workers : PoolBlpop(w) \/ PoolProcessJob(w)

\* start_job requests and a pool of workers
SpecPool == Init /\ [][StartJobHsetNext \/ StartJobRpush \/ Pool]_vars

\* ------------------------------------------------- sequences of upsert_job calls
Statuses == {"queued", "running", "completed", "failed"}

\* the records handedTo to upsert_job
JobInputs ==
    {job_record(j, [GoodMeta EXCEPT !.status = st, !.finished_at = fin]) :
        j \in Jobs, st \in Statuses, fin \in {<<>>, PyStr(now_ts)}}

\* one call of upsert_job(job); the store may fail it, which rolls back and raises
UpsertCall ==
    /\ \E job \in JobInputs :
        \/ /\ NoFault
           /\ IF upsert_job(jobsTable, job).raised
              THEN UNCHANGED <<jobsTable, lastUpsert, upserts, rolledBack>>
              ELSE Upserted(job)
        \/ /\ Fault
           /\ \E at \in FailingSteps :
                 jobsTable' = upsert_job_failed(jobsTable, job, at)
           /\ rolledBack' = IF \E r \in jobsTable : r.id = job.id
                            THEN rolledBack \cup {job.id} ELSE rolledBack
           /\ UNCHANGED <<lastUpsert, upserts>>
    /\ UNCHANGED <<hkeys, hash, queue, logList, appended, markAtAppend, syncKey, jobLogs, lost,
                   ppc, workerVars, syncVars, bwVars, fanVars>>

SpecUpsert == Init /\ [][UpsertCall]_vars

\* ------------------------------------------------------- batched writer
\* a clock reading that stops counting one tick past FLUSH_INTERVAL
Later(t) == IF t > FLUSH_INTERVAL THEN t ELSE t + 1

\* DuckDBWriter.insert_batch(rows): if not rows: return; executemany(INSERT ...)
insert_batch(T, rows) == T \o rows

\* a slice that stops one record short of the buffer
FlushArg_short(buf) == SubSeq(buf, 1, Len(buf) - 1)

\* the argument of writer.insert_batch(buffer)
FlushArg(buf) == buf

\* a size check that lets the buffer hold BATCH_SIZE records
SizeReached_late(n) == n > BATCH_SIZE

\* if len(buffer) >= BATCH_SIZE
SizeReached(n) == n >= BATCH_SIZE

\* a timeout branch that calls insert_batch whatever the buffer holds
TimeoutFlushes_always(buf) == TRUE

\* except asyncio.TimeoutError: if buffer
TimeoutFlushes(buf) == buf # <<>>

\* the history entry of one insert_batch call
Call(trigger, rows) ==
    [trigger |-> trigger, rows |-> rows, ntaken |-> Len(taken'), ndone |-> Len(events)]

\* insert_batch returned: buffer.clear(); last_flush = time.time()
Flushed(trigger, buf) ==
    /\ events' = insert_batch(events, FlushArg(buf))
    /\ bwCalls' = Append(bwCalls, Call(trigger, FlushArg(buf)))
    /\ buffer' = <<>>
    /\ sinceFlush' = 0
    /\ bufAge' = 0
    /\ bwLast' = "ok"
    /\ NoFault

\* insert_batch raised: nothing after the call in its branch runs
FlushRaised(trigger, buf) ==
    /\ bwCalls' = Append(bwCalls, Call(trigger, FlushArg(buf)))
    /\ buffer' = buf
    /\ bwLast' = "raised"
    /\ UNCHANGED <<events, sinceFlush, bufAge>>
    /\ Fault

\* producer: await queue.put(evt)
BwSubmit ==
    /\ submitted < MaxSubmit
    /\ submitted' = submitted + 1
    /\ bwQueue' = Append(bwQueue, submitted + 1)
    /\ UNCHANGED <<buffer, events, bwAlive, waited, sinceFlush, bufAge, taken, bwCalls,
                   bwLast, faults, pipeVars, fanVars>>

\* evt = await wait_for(queue.get(), T); buffer.append(evt); below BATCH_SIZE
BwGetBuffer ==
    /\ bwAlive
    /\ bwQueue # <<>>
    /\ ~SizeReached(Len(buffer) + 1)
    /\ bwQueue' = Tail(bwQueue)
    /\ taken' = Append(taken, Head(bwQueue))
    /\ buffer' = Append(buffer, Head(bwQueue))
    /\ waited' = 0
    /\ bwLast' = "none"
    /\ UNCHANGED <<events, bwAlive, sinceFlush, bufAge, submitted, bwCalls, faults,
                   pipeVars, fanVars>>

\* ... if len(buffer) >= BATCH_SIZE: insert_batch(buffer); buffer.clear();
\* a raise is caught by except Exception and the loop goes on
BwGetFlush ==
    /\ bwAlive
    /\ bwQueue # <<>>
    /\ SizeReached(Len(buffer) + 1)
    /\ bwQueue' = Tail(bwQueue)
    /\ taken' = Append(taken, Head(bwQueue))
    /\ waited' = 0
    /\ \/ Flushed("size", Append(buffer, Head(bwQueue)))
       \/ FlushRaised("size", Append(buffer, Head(bwQueue)))
    /\ UNCHANGED <<bwAlive, submitted, pipeVars, fanVars>>

\* except asyncio.TimeoutError with an empty buffer
BwTimeoutIdle ==
    /\ bwAlive
    /\ bwQueue = <<>>
    /\ waited = FLUSH_INTERVAL
    /\ ~TimeoutFlushes(buffer)
    /\ waited' = 0
    /\ bwLast' = "none"
    /\ UNCHANGED <<bwQueue, buffer, events, bwAlive, sinceFlush, bufAge, submitted, taken,
                   bwCalls, faults, pipeVars, fanVars>>

\* except asyncio.TimeoutError: if buffer: insert_batch(buffer); buffer.clear();
\* a raise inside this handler is not caught by the except Exception beside it
\* and ends the task
BwTimeoutFlush ==
    /\ bwAlive
    /\ bwQueue = <<>>
    /\ waited = FLUSH_INTERVAL
    /\ TimeoutFlushes(buffer)
    /\ waited' = 0
    /\ UNCHANGED <<bwQueue, submitted, taken, pipeVars, fanVars>>
    /\ \/ Flushed("timeout", buffer) /\ UNCHANGED bwAlive
       \/ FlushRaised("timeout", buffer) /\ bwAlive' = FALSE

\* one second passes; a running writer takes a queued record at once and its
\* wait ends at FLUSH_INTERVAL
BwTick ==
    /\ bwAlive => (bwQueue = <<>> /\ waited < FLUSH_INTERVAL)
    /\ waited' = IF bwAlive THEN waited + 1 ELSE waited
    /\ sinceFlush' = Later(sinceFlush)
    /\ bufAge' = IF buffer = <<>> THEN 0 ELSE Later(bufAge)
    /\ UNCHANGED <<bwQueue, buffer, events, bwAlive, submitted, taken, bwCalls, bwLast,
                   faults, pipeVars, fanVars>>

BatchedWriter ==
    \/ BwSubmit \/ BwGetBuffer \/ BwGetFlush \/ BwTimeoutIdle \/ BwTimeoutFlush
    \/ BwTick

SpecBW == Init /\ [][BatchedWriter]_vars

\* ------------------------------------------------------- realtime fan-out
\* the data of a message, as json.loads reads it: not JSON at all (text), JSON
\* that is no object (array), or an object with or without job_id and line;
\* a job_id or line may be the empty string
Payloads ==
    {[form |-> "empty", job_id |-> None, line |-> None],
     [form |-> "text", job_id |-> None, line |-> None],
     [form |-> "array", job_id |-> None, line |-> None],
     [form |-> "object", job_id |-> None, line |-> Some(PyStr(7))],
     [form |-> "object", job_id |-> Some(PyStr(1)), line |-> None],
     [form |-> "object", job_id |-> Some(<<>>), line |-> Some(PyStr(7))],
     LinePayload(PyStr(1), <<>>),
     LinePayload(PyStr(1), PyStr(7))}

\* the message ps.listen() yields first: the confirmation of the subscription
SubscribeMsg == [type |-> "subscribe", id |-> 0, data |-> [form |-> "empty", job_id |-> None,
                                                          line |-> None]]

\* payload = json.loads(data); payload.get(...) raises
PayloadRaises(d) == d.form \in {"text", "array"}

\* a test that takes a payload without a line
Deliverable_anyline(d) == d.job_id # None /\ d.job_id[1] # <<>>

\* if _emit_cb and job_id and line is not None (the callback is registered
\* before the listener is started)
Deliverable(d) == d.job_id # None /\ d.job_id[1] # <<>> /\ d.line # None

\* an emit callback whose exception leaves the loop
AfterEmitRaise_exit == "off"

\* try: _emit_cb(job_id, line) except Exception: pass
AfterEmitRaise == "listen"

\* the finally clause of _listener_loop: ps.close(); _running = False; the thread ends
Finally(why) ==
    /\ lpc' = "off"
    /\ lrunning' = FALSE
    /\ inbox' = <<>>
    /\ lexit' = why

Handled(m, outcome) == handled' = Append(handled, [id |-> m.id, data |-> m.data,
                                                   outcome |-> outcome])

\* start_redis_listener: if _thread and _thread.is_alive(): return; else start it
StartRedisListener ==
    /\ lpc' = IF lpc = "off" THEN "subscribe" ELSE lpc
    /\ UNCHANGED <<lrunning, inbox, published, handled, lexit, faults, pipeVars, bwVars>>

\* stop_redis_listener: _running = False
StopRedisListener ==
    /\ lrunning' = FALSE
    /\ UNCHANGED <<lpc, inbox, published, handled, lexit, faults, pipeVars, bwVars>>

\* ps = _r.pubsub(); ps.subscribe(_channel); _running = True. A raise is outside
\* the try and ends the thread
ListenerSubscribe ==
    /\ lpc = "subscribe"
    /\ \/ /\ lpc' = "listen"
          /\ lrunning' = TRUE
          /\ inbox' = <<SubscribeMsg>>
          /\ UNCHANGED lexit
          /\ NoFault
       \/ /\ lpc' = "off"
          /\ lexit' = "subscribe raised"
          /\ UNCHANGED <<lrunning, inbox>>
          /\ Fault
    /\ UNCHANGED <<published, handled, pipeVars, bwVars>>

\* one pass of for message in ps.listen()
ListenerReceive ==
    /\ lpc = "listen"
    /\ inbox # <<>>
    /\ LET m == Head(inbox)
       IN  IF ~lrunning THEN
               Finally("stopped") /\ UNCHANGED handled /\ NoFault
           ELSE
               /\ inbox' = Tail(inbox)
               /\ UNCHANGED <<lrunning, lexit>>
               /\ IF m.type # "message" THEN
                      lpc' = "listen" /\ UNCHANGED handled /\ NoFault
                  ELSE IF m.data.form = "empty" \/ PayloadRaises(m.data)
                          \/ ~Deliverable(m.data) THEN
                      lpc' = "listen" /\ Handled(m, "dropped") /\ NoFault
                  ELSE
                      \/ lpc' = "listen" /\ Handled(m, "emitted") /\ NoFault
                      \/ lpc' = AfterEmitRaise /\ Handled(m, "emit raised") /\ Fault
    /\ UNCHANGED <<published, pipeVars, bwVars>>

\* ps.listen() raises (the connection is lost) or ends: the finally clause runs
ListenerDrop ==
    /\ lpc = "listen"
    /\ Finally("dropped")
    /\ Fault
    /\ UNCHANGED <<published, handled, pipeVars, bwVars>>

\* some client publishes on bench_logs
FanPublish ==
    /\ published < MaxPublish
    /\ published' = published + 1
    /\ \E d \in Payloads : Publish([type |-> "message", id |-> published + 1, data |-> d])
    /\ UNCHANGED <<lpc, lrunning, handled, lexit, faults, pipeVars, bwVars>>

\* the steps of the listener thread
ListenerThread == ListenerSubscribe \/ ListenerReceive \/ ListenerDrop

FanOut == StartRedisListener \/ StopRedisListener \/ ListenerThread \/ FanPublish

\* the thread, once started, is scheduled
SpecFanOut == Init /\ [][FanOut]_vars /\ WF_vars(ListenerSubscribe \/ ListenerReceive)

\* ----------------------------------------------------------------- claims
\* the persisted watermark of job j, as _sync_logs_for_job reads it
Watermark(j) == LastIdx(syncKey[j])

UniqueLogKeys ==
    \A r1, r2 \in jobLogs : (r1.job_id = r2.job_id /\ r1.seq = r2.seq) => r1 = r2

\* C1: job_logs never holds two rows with the same (job_id, seq), and a row once
\* stored is never changed or removed, whatever range a later sync run hands in
C1_NoDuplicateLogRows == [](UniqueLogKeys) /\ [][jobLogs \subseteq jobLogs']_vars

\* a second run handedTo in a seq that is stored already, with another line, and
\* the stored row is still there
C1_Witness ==
    /\ rpc = "set"
    /\ \E r \in jobLogs :
        r.job_id = rjob /\ r.seq = last_idx /\ r.line # new_entries[1]

\* C2: the line of every durable row (job_id, seq, line) is the seq-th line ever
\* appended to the job's log (a line is named by its append ordinal)
C2_SeqIsAppendOrder == \A r \in jobLogs : r.line = r.seq

SeqsWereAppended == \A r \in jobLogs : r.seq >= 0 /\ r.seq < appended[r.job_id]

HasRow(j, s) == \E r \in jobLogs : r.job_id = j /\ r.seq = s

\* C3 as stated: the durable (job_id, seq) pairs were appended, are unique, and
\* every seq below the persisted watermark has a durable row
C3_NoGapBelowWatermark ==
    /\ SeqsWereAppended
    /\ UniqueLogKeys
    /\ \A j \in Jobs : \A s \in 0..(Watermark(j) - 1) : HasRow(j, s)

\* C3 amended: ... every seq below the persisted watermark has a durable row,
\* unless the insert_job_logs call it was handedTo to raised
C3_NoGapUnlessInsertRaised ==
    /\ SeqsWereAppended
    /\ UniqueLogKeys
    /\ \A j \in Jobs : \A s \in 0..(Watermark(j) - 1) :
        HasRow(j, s) \/ <<j, s>> \in lost

\* the watermark passed a range whose insert raised, and a later range is stored
C3_Witness ==
    \E j \in Jobs :
        /\ \E s \in 0..(Watermark(j) - 1) : ~HasRow(j, s) /\ <<j, s>> \in lost
        /\ \E s \in 0..(Watermark(j) - 1) : HasRow(j, s)

\* C4: no step lowers the persisted watermark of a job
C4_WatermarkMonotonic ==
    [][\A j \in Jobs : LastIdx(syncKey'[j]) >= LastIdx(syncKey[j])]_vars

\* the watermark was written twice: by a full batch, then by the rest
C4_Witness == \E j \in Jobs : Watermark(j) > LOG_BATCH_LIMIT

\* the record the cycle is to upsert when unparseable integer fields are nulled
BestEffortInt(v) == IF IntFieldOk(v) THEN IntField(v) ELSE None

best_effort_record(job_id, meta) ==
    [id |-> job_id, status |-> meta.status,
     created_at |-> BestEffortInt(meta.created_at),
     started_at |-> BestEffortInt(meta.started_at),
     finished_at |-> BestEffortInt(meta.finished_at),
     exit_code |-> BestEffortInt(meta.exit_code), error |-> meta.error,
     params |-> Params(meta.params)]

\* C5: after a cycle in which no store call raised, every enumerated job (also one
\* with an unparseable integer field or unparseable params) has its jobs row,
\* made of the remaining values, and its log sync has run
C5_MalformedFieldStillUpserted ==
    (rpc = "sleep" /\ faults = 0) =>
        \A k \in cycleKeys :
            /\ k \in cycleDone
            /\ UpsertRow(best_effort_record(k, hash[k])) \in jobsTable

JobRows(j) == {r \in jobsTable : r.id = j}

\* C6: one jobs row per id that was upserted, none for the other ids, and the
\* row carries the status of the latest upsert_job call that returned
C6_OneRowLatestStatus ==
    \A j \in Jobs :
        IF lastUpsert[j] = "none" THEN JobRows(j) = {}
        ELSE /\ Cardinality(JobRows(j)) = 1
             /\ \A r \in JobRows(j) : r.status = lastUpsert[j]

\* both ids upserted, one of them at least twice, with a call having raised
C6_Witness ==
    /\ \A j \in Jobs : upserts[j] >= 1
    /\ \E j \in Jobs : upserts[j] = 2 /\ lastUpsert[j] = "completed"
    /\ faults > 0

\* C7: at the end of a cycle every enumerated job either raised in its own
\* iteration or was upserted and log-synced, whatever happened to the others
C7_OtherJobsStillProcessed ==
    rpc = "sleep" =>
        \A k \in cycleKeys :
            k \in cycleFailed \/ (k \in cycleDone /\ JobRows(k) # {})

\* a cycle ended in which one job raised on its unparseable hash, another job's
\* store call raised, and a third outcome, a processed job with log rows, exists
C7_Witness ==
    /\ rpc = "sleep"
    /\ \E k \in cycleFailed : RecordRaises(hash[k])
    /\ \E k \in cycleDone : k \notin cycleFailed /\ HasRow(k, 0)

\* C8: after a loop pass of the writer that called insert_batch, the buffer is
\* empty, whether the call returned or raised
C8_BufferEmptyAfterFlush == bwLast # "none" => buffer = <<>>

\* C9: the argument of every insert_batch call is the whole buffer: all records
\* taken from the queue and not yet stored, in the order they were taken
C9_WholeBufferPerFlush ==
    \A i \in 1..Len(bwCalls) :
        /\ bwCalls[i].rows # <<>>
        /\ bwCalls[i].rows = SubSeq(taken, bwCalls[i].ndone + 1, bwCalls[i].ntaken)

\* a flush by size and a flush by timeout have both been made
C9_Witness ==
    /\ \E i \in 1..Len(bwCalls) : bwCalls[i].trigger = "size"
    /\ \E i \in 1..Len(bwCalls) : bwCalls[i].trigger = "timeout"

\* C10: while the writer runs and no insert has raised, a record stays in the
\* buffer for at most FLUSH_INTERVAL (the last flush, or the start, is at least
\* as long ago as the oldest buffered record is old)
C10_FlushWithinInterval ==
    (bwAlive /\ faults = 0 /\ buffer # <<>>) => bufAge <= FLUSH_INTERVAL

\* the records of insert_batch call i
CallRecords(i) == {bwCalls[i].rows[k] : k \in 1..Len(bwCalls[i].rows)}

\* no record was handedTo to two insert_batch calls
OneFlushPerRecord ==
    \A i, k \in 1..Len(bwCalls) : i # k => CallRecords(i) \cap CallRecords(k) = {}

\* C11: while no insert_batch call has raised, the buffer never holds BATCH_SIZE
\* records (the flush is made in the step that buffers the BATCH_SIZE-th one, with
\* no wait), every flush by size hands in exactly the BATCH_SIZE records taken
\* last, and no record is handedTo in twice
C11_SizeFlushAtOnce ==
    faults = 0 =>
        /\ Len(buffer) < BATCH_SIZE
        /\ OneFlushPerRecord
        /\ \A i \in 1..Len(bwCalls) :
              bwCalls[i].trigger = "size" =>
                /\ Len(bwCalls[i].rows) = BATCH_SIZE
                /\ bwCalls[i].rows = SubSeq(taken, bwCalls[i].ntaken - BATCH_SIZE + 1,
                                            bwCalls[i].ntaken)

\* the first BATCH_SIZE records were taken with no second passing and made the
\* one insert_batch call there is
C11_Witness ==
    /\ faults = 0
    /\ Len(bwCalls) = 1
    /\ bwCalls[1].trigger = "size"
    /\ bwCalls[1].rows = [k \in 1..BATCH_SIZE |-> k]
    /\ sinceFlush = 0
    /\ events = bwCalls[1].rows

\* a wait_for(queue.get()) of the running writer times out in this step
TimesOut == bwAlive /\ bwQueue = <<>> /\ waited = FLUSH_INTERVAL /\ waited' = 0

\* C12: a timeout with records in the buffer makes exactly one insert_batch call,
\* of exactly the buffered records, and leaves the buffer empty when the call
\* returns; a timeout with an empty buffer makes no insert_batch call
C12_TimeoutFlushOnce ==
    [][TimesOut =>
          IF buffer = <<>> THEN bwCalls' = bwCalls
          ELSE /\ Len(bwCalls') = Len(bwCalls) + 1
               /\ SubSeq(bwCalls', 1, Len(bwCalls)) = bwCalls
               /\ bwCalls'[Len(bwCalls')].rows = buffer
               /\ faults' = faults => buffer' = <<>> /\ events' = events \o buffer]_vars

\* BATCH_SIZE - 1 records were submitted, one timeout flushed exactly them, and
\* more than FLUSH_INTERVAL has passed since with no further call
C12_Witness ==
    /\ submitted = BATCH_SIZE - 1
    /\ Len(bwCalls) = 1
    /\ bwCalls[1].trigger = "timeout"
    /\ bwCalls[1].rows = [k \in 1..(BATCH_SIZE - 1) |-> k]
    /\ events = bwCalls[1].rows
    /\ buffer = <<>>
    /\ sinceFlush > FLUSH_INTERVAL

\* the status changes of queued -> running -> {completed | failed}
StatusStep(a, b) ==
    \/ a = "" /\ b = "queued"
    \/ a = "queued" /\ b = "running"
    \/ a = "running" /\ b \in {"completed", "failed"}

\* C13: every change of a job hash's status is a step of queued -> running ->
\* completed | failed: never back to queued, and a completed or failed status is
\* never replaced, also when a store write or the subprocess raises
C13_StatusMonotonic ==
    [][\A j \in Jobs :
          hash'[j].status # hash[j].status =>
              StatusStep(hash[j].status, hash'[j].status)]_vars

Terminal(j) == hash[j].status \in {"completed", "failed"}

\* the subprocess of job j has ended (proc.wait() returned), or the try block
\* of process_job raised
SubprocessEnded(j) == wjob = j /\ wpc \in {"exit_code", "e_status"}

\* C14: once the subprocess of a job the worker took has ended, with exit code 0
\* or not, or an exception was raised in process_job, the job's hash eventually
\* has status completed or failed
C14_TakenJobEndsTerminal == \A j \in Jobs : SubprocessEnded(j) ~> Terminal(j)

\* the durable value v of an optional integer column is what the hash field s says
SameOptInt(v, s) == IF s = <<>> THEN v = None ELSE v # None /\ PyStr(v[1]) = s

\* the same for a timestamp column, where upsert_job stores 0 for a missing value
SameTimestamp(v, s) == IF s = <<>> THEN v = 0 ELSE PyStr(v) = s

\* the jobs row of k shows the status, exit_code and finished_at of k's hash
RowMatchesHash(k) ==
    /\ JobRows(k) # {}
    /\ \A r \in JobRows(k) :
          /\ r.status = hash[k].status
          /\ SameOptInt(r.exit_code, hash[k].exit_code)
          /\ SameTimestamp(r.finished_at, hash[k].finished_at)

\* C15: at the end of a cycle that began after the job hashes stopped changing,
\* every enumerated job with well-formed fields whose iteration the stores did not
\* fail has a jobs row with the status, exit_code and finished_at of its hash
\* (finished_at 0 in the row for a hash without one)
C15_RowFollowsHashWithinOneCycle ==
    (rpc = "sleep" /\ cycleStable) =>
        \A k \in cycleKeys :
            (k \notin cycleFailed /\ ~RecordRaises(hash[k])) => RowMatchesHash(k)

\* a cycle over a finished job ended whose row had been written before from an
\* earlier state of the hash
C15_Witness ==
    /\ rpc = "sleep"
    /\ cycleStable
    /\ \E k \in cycleKeys :
          /\ k \notin cycleFailed
          /\ upserts[k] = 2
          /\ hash[k].status = "failed"
          /\ hash[k].exit_code = PyStr(1)
          /\ hash[k].finished_at # <<>>
          /\ RowMatchesHash(k)

\* a broadcast message that is not valid JSON, or has no job_id, or has no line
Malformed(d) ==
    \/ d.form \in {"empty", "text", "array"}
    \/ d.form = "object" /\ (d.job_id = None \/ d.line = None)

\* a broadcast message {job_id, line} of a job
ValidMessage(d) ==
    d.form = "object" /\ d.job_id # None /\ d.job_id # Some(<<>>) /\ d.line # None

\* the loop body ran for a message in this step
Handles == Len(handled') = Len(handled) + 1

\* the loop is subscribed and running after the step and has lost no message
StillListening == lpc' = "listen" /\ lrunning' /\ inbox' = Tail(inbox)

CallbackInvoked(h) == h.outcome \in {"emitted", "emit raised"}

\* C16: the loop body run for a malformed message does not invoke the emit
\* callback and leaves the loop listening with the messages behind it kept, and
\* the loop body run for a valid message invokes the callback
C16_MalformedDropped ==
    [][Handles =>
          LET h == handled'[Len(handled')]
          IN  /\ Malformed(h.data) => (h.outcome = "dropped" /\ StillListening)
              /\ ValidMessage(h.data) => CallbackInvoked(h)]_vars

\* a message without a line was dropped and the valid message received next
\* was handedTo to the callback
C16_Witness ==
    \E i \in 1..(Len(handled) - 1) :
        /\ handled[i].data.form = "object"
        /\ handled[i].data.line = None
        /\ handled[i].outcome = "dropped"
        /\ ValidMessage(handled[i + 1].data)
        /\ handled[i + 1].outcome = "emitted"

\* C17: a raise of the emit callback leaves the loop subscribed and running with
\* the messages behind it kept, and every valid message the loop receives after
\* it is handedTo to the callback
C17_EmitFaultIsolated ==
    /\ [][(Handles /\ handled'[Len(handled')].outcome = "emit raised")
             => StillListening]_vars
    /\ [](\A i, k \in 1..Len(handled) :
            (i < k /\ handled[i].outcome = "emit raised" /\ ValidMessage(handled[k].data))
                => CallbackInvoked(handled[k]))

\* the callback raised for one message and was called for a later one
C17_Witness ==
    \E i, k \in 1..Len(handled) :
        i < k /\ handled[i].outcome = "emit raised" /\ handled[k].outcome = "emitted"

\* C18: after the subscription dropped (listen() raised or ended) the loop is
\* subscribed again by itself, which delivering a later message takes
C18_Resubscribes == (lpc = "off" /\ lexit = "dropped") ~> (lpc = "listen")

\* C19: with the list trimmed past the watermark, the rows a sync invocation
\* writes are those of retained lines under their append-order seq
\* (OldestAvailable and above), and the seqs from the watermark up to
\* OldestAvailable - 1 stay absent from durable storage
C19_ResumesFromOldestAvailable ==
    \A r \in jobLogs :
        /\ r.line = r.seq
        /\ r.seq < SyncedBefore \/ r.seq >= OldestAvailable

\* the lines first .. first + n - 1, as lrange returns them
LinesFrom(first, n) == [i \in 1..n |-> first + i - 1]

\* the job_logs rows of job j are exactly seq 0 .. n - 1, each with its own line
ExactlyRows(T, j, n) ==
    {r \in T : r.job_id = j} = {LogRow(j, Rows(0, LinesFrom(0, n))[i]) : i \in 1..n}

\* an invocation of _sync_logs_for_job writes the watermark in this step and no
\* store call has raised
WritesWatermark == rpc = "set" /\ faults = 0 /\ syncKey'[rjob] # syncKey[rjob]

\* the watermark that step writes
NewWatermark == LastIdx(syncKey'[rjob])

\* C20 as stated: the invocation that starts at watermark 0 reads the first
\* LOG_BATCH_LIMIT lines and writes watermark LOG_BATCH_LIMIT; the one that starts
\* there reads the remaining lines of the ScenarioLines and writes watermark
\* ScenarioLines, and job_logs then holds exactly seq 0 .. ScenarioLines - 1
C20_TwoCallsExactRows ==
    [][WritesWatermark =>
          /\ last_idx = 0 =>
                /\ new_entries = LinesFrom(0, LOG_BATCH_LIMIT)
                /\ NewWatermark = LOG_BATCH_LIMIT
          /\ last_idx = LOG_BATCH_LIMIT =>
                /\ new_entries = LinesFrom(LOG_BATCH_LIMIT, ScenarioLines - LOG_BATCH_LIMIT)
                /\ NewWatermark = ScenarioLines
                /\ ExactlyRows(jobLogs, rjob, ScenarioLines)]_vars

\* C20 amended: ... the second invocation reads the remaining lines and the lines
\* appended before it read the list length, at most LOG_BATCH_LIMIT in all, and
\* writes the watermark behind the last line read; job_logs then holds exactly
\* one row for every seq below that watermark, those of the ScenarioLines among them
C20_TwoCallsRowsUpToWatermark ==
    [][WritesWatermark =>
          /\ last_idx = 0 =>
                /\ new_entries = LinesFrom(0, LOG_BATCH_LIMIT)
                /\ NewWatermark = LOG_BATCH_LIMIT
          /\ last_idx = LOG_BATCH_LIMIT =>
                /\ Len(new_entries) >= ScenarioLines - LOG_BATCH_LIMIT
                /\ Len(new_entries) <= LOG_BATCH_LIMIT
                /\ new_entries = LinesFrom(LOG_BATCH_LIMIT, Len(new_entries))
                /\ NewWatermark = LOG_BATCH_LIMIT + Len(new_entries)
                /\ NewWatermark >= ScenarioLines
                /\ ExactlyRows(jobLogs, rjob, NewWatermark)]_vars

\* the second invocation has run after a further line was appended: the watermark
\* is behind that line and its row is stored
C20_Witness ==
    \E j \in Jobs :
        /\ faults = 0
        /\ Watermark(j) = ScenarioLines + 1
        /\ ExactlyRows(jobLogs, j, ScenarioLines + 1)

\* a reconciliation cycle is between its key enumeration and its last job
CycleInFlight == rpc # "sleep"

\* C21: for every sequence of start_db_sync and stop_db_sync calls of one caller,
\* at most one loop thread is alive, a cycle in flight belongs to that thread,
\* and no thread is started while a cycle is in flight
C21_CyclesNeverOverlap ==
    /\ [](sActive <= 1 /\ (CycleInFlight => sActive = 1))
    /\ [][sActive' > sActive => ~CycleInFlight /\ sActive = 0]_vars

\* a cycle of a started thread is in flight when stop_db_sync has been called
C21_Witness == sActive = 1 /\ CycleInFlight /\ ~sRunning

\* the loop thread passes its while test and enters _sync_jobs_and_logs_once
CycleBegins == ~CycleInFlight /\ (CycleInFlight' \/ faults' > faults)

\* C22: once stop_db_sync has cleared _running, no cycle begins, the thread
\* ends only between cycles (the cycle in flight is completed), and the thread
\* does end; a start_db_sync that finds the thread alive changes nothing, and
\* one that finds it dead comes after the termination
C22_StopEndsLoop ==
    /\ [][~sRunning => ~CycleBegins]_vars
    /\ [][sActive' < sActive => ~CycleInFlight]_vars
    /\ (~sRunning /\ sActive > 0) ~> (sActive = 0)

\* the thread has synced the log, was stopped and has ended
C22_Witness == ~sRunning /\ sActive = 0 /\ syncKey[FirstJob] # <<>>

\* C28: a store failure inside a cycle, the key enumeration included, leaves
\* the loop thread alive; the thread ends only when _running is false; and a
\* started loop begins a cycle that gets past the enumeration, unless stopped
C28_FailureEndsCycleOnly ==
    /\ [][faults' > faults => sActive' = sActive]_vars
    /\ [][sActive' < sActive => ~sRunning]_vars
    /\ (sRunning /\ sActive > 0) ~> (CycleInFlight \/ ~sRunning)

\* the latest enumeration raised and the started loop is alive, about to sleep
C28_Witness == faults > 0 /\ cycleKeys = {} /\ sRunning /\ sActive = 1 /\ ~CycleInFlight

\* stop_redis_listener was called after the thread had set _running
StoppedWhileListening == lpc = "listen" /\ ~lrunning

\* C23: a listener stopped after its start-up terminates, whether or not a
\* further message is published
C23_StopTerminatesListener == StoppedWhileListening ~> (lpc = "off")

\* the reconciler leaves the step it is at
LeavesStep == rpc' # rpc \/ rjob' # rjob

\* C24: whatever the insert attempt did (stored all rows, stored none, raised),
\* the invocation goes on to the watermark write with w and the entries read
\* unchanged; the watermark is written by that step only, hence after the
\* insert attempt; and the write, when the store accepts it, stores w + n for
\* the n >= 1 entries read from watermark w
C24_WatermarkAfterInsertAttempt ==
    /\ [][rpc = "insert" /\ LeavesStep =>
            /\ rpc' = "set" /\ rjob' = rjob
            /\ syncKey' = syncKey
            /\ last_idx' = last_idx /\ new_entries' = new_entries]_vars
    /\ [][syncKey' # syncKey => rpc = "set"]_vars
    /\ [][rpc = "set" /\ LeavesStep /\ faults' = faults =>
            /\ Len(new_entries) >= 1
            /\ last_idx = Watermark(rjob)
            /\ LastIdx(syncKey'[rjob]) = Watermark(rjob) + Len(new_entries)]_vars

\* the watermark stands behind a seq whose insert raised
C24_Witness == \E p \in lost : Watermark(p[1]) > p[2]

\* the smaller of two numbers
Smaller(a, b) == IF a < b THEN a ELSE b

\* a step of the reconciler that ends without a store call raising
Returns == LeavesStep /\ faults' = faults

InLogSync == rpc \in {"llen", "lrange", "insert", "set"}

\* the start index of the invocation is what the sync key holds
StartsAtPersisted ==
    IF syncKey[rjob] = <<>> THEN last_idx = 0 ELSE syncKey[rjob] = PyStr(last_idx)

\* C26: in every invocation of every cycle the start index is the persisted
\* watermark; the entries read are those at the watermark and the indices
\* that follow it, none skipped and none below it (the entry at index k is line
\* k); and the rows made of them carry the seqs watermark, watermark + 1, ...
\* in strictly increasing order
C26_StartsAtWatermarkInOrder ==
    /\ InLogSync => StartsAtPersisted
    /\ rpc \in {"insert", "set"} =>
          LET rows == Rows(last_idx, new_entries)
          IN  /\ new_entries = LinesFrom(last_idx, Len(new_entries))
              /\ rows[1].seq = last_idx
              /\ \A i \in 1..(Len(rows) - 1) : rows[i].seq < rows[i + 1].seq

\* a third invocation hands in lines appended after the first two
C26_Witness == rpc = "insert" /\ last_idx = ScenarioLines /\ Len(new_entries) >= 1

\* C27: when log_line has appended a line to a job's log and no store call
\* fails, a later cycle advances the watermark of that job beyond where it
\* stood at the append, however many lines the job has printed
C27_LogSyncNeverStalls ==
    \A j \in Jobs : \A w \in 0..(LOG_TRIM + MaxAppends) :
        (appended[j] > 0 /\ markAtAppend[j] = w /\ Watermark(j) = w)
            ~> (Watermark(j) > w \/ faults > 0)

\* C29: a jobs row whose status is completed or failed has a non-zero finished_at
C29_TerminalRowHasFinishedAt ==
    \A r \in jobsTable : r.status \in {"completed", "failed"} => r.finished_at # 0

\* C30: the persisted watermark of a job is at most the length of its log list
C30_WatermarkWithinList == \A j \in Jobs : Watermark(j) <= Len(logList[j])

\* C31: when the call that returned last is start_db_sync, a reconciler loop
\* thread is alive
C31_LoopActiveAfterStart == lastCall = "start" => sActive > 0

\* C32: an upsert_job call that the store fails, at the delete or at the
\* insert, leaves the jobs table exactly as it was and returns nothing to the
\* caller (it raises), so a row stored before for that id is still there
C32_FailedUpsertRollsBack ==
    /\ [][faults' > faults =>
            jobsTable' = jobsTable /\ lastUpsert' = lastUpsert /\ upserts' = upserts]_vars
    /\ [](\A j \in rolledBack : Cardinality(JobRows(j)) = 1)

\* a call for an id with a stored row has raised and the row is in the table
C32_Witness == \E j \in rolledBack : \E r \in JobRows(j) : r.status = lastUpsert[j]

\* the reconciler is in _sync_logs_for_job
InSyncLogsForJob == rpc = "get" \/ InLogSync

\* C33: every job_logs row, and every watermark above 0, belongs to a job that
\* has a jobs row; and whenever the reconciler is in the log sync of a job, the
\* upsert of the same iteration has stored the row made of the hash it read (a
\* failed upsert is never followed by the job's log sync)
C33_LogRowsHaveJobRow ==
    /\ \A r \in jobLogs : JobRows(r.job_id) # {}
    /\ \A j \in Jobs : Watermark(j) > 0 => JobRows(j) # {}
    /\ InSyncLogsForJob =>
          /\ rjob \notin cycleFailed
          /\ UpsertRow(job_record(rjob, rmeta)) \in jobsTable

\* the iteration of a job with log lines raised before any row of the job was
\* stored: the cycle went on without syncing its log
C33_Witness ==
    \E j \in cycleFailed :
        /\ rjob # j
        /\ JobRows(j) = {}
        /\ logList[j] # <<>>
        /\ Watermark(j) = 0
        /\ \A r \in jobLogs : r.job_id # j

\* C34: the records taken from the queue are, in the order taken, those of the
\* successful insert_batch calls followed by those still buffered (none twice,
\* none missing), and records still buffered have a running writer that will
\* hand them in again
C34_EveryRecordStoredOnce ==
    /\ taken = events \o buffer
    /\ buffer # <<>> => bwAlive

\* C35: no job is handedTo to process_job more than once, no two workers hold the
\* same job, and every job on the queue has its hash with status queued
C35_JobHandedOnce ==
    /\ \A j \in Jobs : Len(handedTo[j]) <= 1
    /\ \A v, w \in Workers : (v # w /\ pool[v] # 0) => pool[v] # pool[w]
    /\ \A i \in 1..Len(queue) :
          queue[i] \in hkeys /\ hash[queue[i]].status = "queued"

\* two workers are in process_job at the same time, each with its own job
C35_Witness == \A w \in Workers : pool[w] # 0 /\ handedTo[pool[w]] = <<w>>

====
